---- MODULE Spec2Model ----
(***************************************************************************)
(* Model of the Mood API (src/app.py): a Flask application over two        *)
(* SQLAlchemy tables (Usuario, Registro), JWT identities and the           *)
(* Cloudinary asset host.  Every request handler is a process position     *)
(* (pc) of a worker; the handlers that touch the database or the asset     *)
(* host more than once are split at each commit / remote call, which is    *)
(* where another worker's request can interleave.                          *)
(***************************************************************************)
EXTENDS Integers, Sequences, FiniteSets, TLC

VARIABLES usuarios, registros, tokens, assets, uploads, hoje, recuos, inseridos, pc, req, tmp, resp

vars == <<usuarios, registros, tokens, assets, uploads, hoje, recuos, inseridos, pc, req, tmp, resp>>

dbvars == <<usuarios, registros, tokens, assets, uploads, hoje, recuos, inseridos>>

\* usuarios, registros: the two tables.  tokens: the identities of the JWTs
\* issued.  assets, uploads: the public ids the asset host holds, and how many
\* uploads it has taken.  hoje: date.today().  recuos: times the clock was set
\* back.  inseridos: history of the rows INSERTed into registro, in commit
\* order (no handler reads it).  pc, req, tmp, resp: per worker, the position
\* in the handler, the request, the handler's locals and the response.

(* ------------------------------ bounds -------------------------------- *)

\* Largest usuario id a registration may take.
MaxUsers == 2

\* Last calendar day of the clock in the two-worker journal model.
MaxDay == 2

\* Last calendar day of the clock in the retention and listing models.
MaxDaySeq == 12

\* Last calendar day of the clock in the model of concurrent retention.
MaxDayRace == 7

\* Rows the second account records in the two-account model.
MaxOutros == 2

\* Times the wall clock may be set back.
MaxRecuos == 1

\* Uploads the asset host accepts.
MaxUploads == 2

(* ----------------------------- constants ------------------------------ *)

\* registros[11:] / limit(11)
Retention == 11

\* the workers that may run handlers at the same time
Procs == {1, 2}

Emails == {"a@x.com", "b@x.com"}

Senhas == {"p1", "p2"}

\* request.json.get("nome"): absent (None), empty, or a name
NONE == "None"

Nomes == {NONE, "", "Ana"}

Humores == {"ok", "sad"}

\* Python None for the image columns and an absent upload
Null == <<>>

(* ------------------------------ helpers ------------------------------- *)

\* max of a non-empty set of integers
Max(S) == CHOOSE x \in S : \A y \in S : y <= x

\* werkzeug.security.generate_password_hash: an opaque digest of the password
generate_password_hash(senha) == <<"pbkdf2", senha>>

\* a verification that accepts any password
check_password_hash_any(hash, senha) == TRUE

\* werkzeug.security.check_password_hash
check_password_hash(hash, senha) == hash = generate_password_hash(senha)

\* a test for presence only: "nome is not None"
TruthyPresent(nome) == nome # NONE

\* Python truthiness of request.json.get("nome")
Truthy(nome) == nome \notin {NONE, ""}

\* integer primary key of a new row: SQLite rowid, max(rowid) + 1
NewId(rows) == IF rows = {} THEN 1 ELSE Max({r.id : r \in rows}) + 1

\* Usuario.query.get(id) is not None
UsuarioExists(id) == \E u \in usuarios : u.id = id

\* Usuario.query.get(id), for an id that has a row
QueryGet(id) == CHOOSE u \in usuarios : u.id = id

\* Usuario.query.filter_by(email=email).first() is not None
EmailExists(email) == \E u \in usuarios : u.email = email

\* the existence check with the row id in place of the owner column
RegistroExistentePorId(uid, d) == \E r \in registros : r.id = uid /\ r.data = d

\* Registro.query.filter_by(id_usuario=uid, data=d).first() is not None
RegistroExistente(uid, d) == \E r \in registros : r.id_usuario = uid /\ r.data = d

\* Registro.query.filter_by(id_usuario=uid)
RegistrosDe(uid) == {r \in registros : r.id_usuario = uid}

NoReq == [op |-> "none", uid |-> 0, email |-> "", senha |-> "", nome |-> NONE,
          humor |-> "", data |-> 0, file |-> FALSE]

NoTmp == [novo |-> 0, del |-> {}, old |-> Null, destroy |-> "none", result |-> Null]

NoResp == [code |-> 0, body |-> <<>>]

Done(p, code, body) ==
    /\ pc' = [pc EXCEPT ![p] = "done"]
    /\ resp' = [resp EXCEPT ![p] = [code |-> code, body |-> body]]

(* ------------------------------- Init --------------------------------- *)

\* db.create_all() on an empty database; no token issued; empty asset host
Init ==
    /\ usuarios = {}
    /\ registros = {}
    /\ tokens = {}
    /\ assets = {}
    /\ uploads = 0
    /\ hoje = 1
    /\ recuos = 0
    /\ inseridos = <<>>
    /\ pc = [p \in Procs |-> "idle"]
    /\ req = [p \in Procs |-> NoReq]
    /\ tmp = [p \in Procs |-> NoTmp]
    /\ resp = [p \in Procs |-> NoResp]

(* ----------------------------- environment ---------------------------- *)

\* the wall clock read by date.today() moves to the next day
Tick(maxDay) ==
    /\ hoje < maxDay
    /\ hoje' = hoje + 1
    /\ UNCHANGED <<usuarios, registros, tokens, assets, uploads, recuos, inseridos, pc, req, tmp, resp>>

\* the wall clock is set back one day (clock correction, time zone change)
ClockBack ==
    /\ hoje > 1
    /\ recuos < MaxRecuos
    /\ hoje' = hoje - 1
    /\ recuos' = recuos + 1
    /\ UNCHANGED <<usuarios, registros, tokens, assets, uploads, inseridos, pc, req, tmp, resp>>

\* the response is sent and the worker is free for the next request
Respond(p) ==
    /\ pc[p] = "done"
    /\ pc' = [pc EXCEPT ![p] = "idle"]
    /\ req' = [req EXCEPT ![p] = NoReq]
    /\ tmp' = [tmp EXCEPT ![p] = NoTmp]
    /\ resp' = [resp EXCEPT ![p] = NoResp]
    /\ UNCHANGED dbvars

(* ------------------------------ register ------------------------------ *)

\* a usuario table without the UNIQUE constraint
EmailUniqueOff(email) == TRUE

\* the UNIQUE constraint on usuario.email, checked by the INSERT
EmailUnique(email) == ~EmailExists(email)

\* POST /register, lines 77-82: the SELECT and the early return
RegisterCheck(p, email, senha, maxUsers) ==
    /\ pc[p] = "idle"
    /\ NewId(usuarios) <= maxUsers
    /\ req' = [req EXCEPT ![p] = [NoReq EXCEPT !.op = "register", !.email = email,
                                                !.senha = senha]]
    /\ IF EmailExists(email)
       THEN Done(p, 400, <<>>)
       ELSE /\ pc' = [pc EXCEPT ![p] = "register_insert"]
            /\ UNCHANGED resp
    /\ UNCHANGED <<dbvars, tmp>>

\* POST /register, lines 84-89: the INSERT and its commit
RegisterInsert(p) ==
    /\ pc[p] = "register_insert"
    /\ IF EmailUnique(req[p].email)
       THEN /\ usuarios' = usuarios \cup
                   {[id |-> NewId(usuarios),
                     email |-> req[p].email,
                     senha_hash |-> generate_password_hash(req[p].senha),
                     nome |-> "User",
                     imagem_url |-> Null,
                     imagem_public_id |-> Null,
                     onboarding_required |-> TRUE]}
            /\ Done(p, 201, <<>>)
       ELSE \* IntegrityError out of db.session.commit(): unhandled, HTTP 500
            /\ UNCHANGED usuarios
            /\ Done(p, 500, <<>>)
    /\ UNCHANGED <<registros, tokens, assets, uploads, hoje, recuos, inseridos, req, tmp>>

(* ------------------------------- login -------------------------------- *)

\* line 99: "not usuario or not check_password_hash(...)" is false
Authenticates(email, senha) ==
    /\ EmailExists(email)
    /\ check_password_hash((CHOOSE u \in usuarios : u.email = email).senha_hash, senha)

\* POST /login
Login(p, email, senha) ==
    /\ pc[p] = "idle"
    /\ req' = [req EXCEPT ![p] = [NoReq EXCEPT !.op = "login", !.email = email,
                                                !.senha = senha]]
    /\ IF ~Authenticates(email, senha)
       THEN /\ Done(p, 401, <<>>)
            /\ UNCHANGED tokens
       ELSE LET usuario == CHOOSE u \in usuarios : u.email = email IN
            /\ Done(p, 200, <<usuario.id, usuario.onboarding_required>>)
            /\ tokens' = tokens \cup {usuario.id}
    /\ UNCHANGED <<usuarios, registros, assets, uploads, hoje, recuos, inseridos, tmp>>

(* ----------------------------- onboarding ----------------------------- *)

\* a write that leaves the table with the one row written
UpdateUsuarioSoEste(id, row) == {row}

\* the UPDATE of one usuario row
UpdateUsuario(id, row) == {IF u.id = id THEN row ELSE u : u \in usuarios}

\* the flag flipped instead of cleared
OnboardingToggled(usuario) ==
    [usuario EXCEPT !.onboarding_required = ~usuario.onboarding_required]

\* usuario.onboarding_required = False, lines 120 and 135
OnboardingConcluido(usuario) == [usuario EXCEPT !.onboarding_required = FALSE]

\* POST /onboarding
Onboarding(p, uid, nome) ==
    /\ pc[p] = "idle"
    /\ uid \in tokens
    /\ req' = [req EXCEPT ![p] = [NoReq EXCEPT !.op = "onboarding", !.uid = uid,
                                                !.nome = nome]]
    /\ IF ~UsuarioExists(uid)
       THEN \* usuario is None: AttributeError at line 118 or 120, HTTP 500
            /\ UNCHANGED usuarios
            /\ Done(p, 500, <<>>)
       ELSE LET usuario == QueryGet(uid)
                named == IF Truthy(nome) THEN [usuario EXCEPT !.nome = nome] ELSE usuario
            IN /\ usuarios' = UpdateUsuario(uid, OnboardingConcluido(named))
               /\ Done(p, 200, <<>>)
    /\ UNCHANGED <<registros, tokens, assets, uploads, hoje, recuos, inseridos, tmp>>

\* PUT /update-onboarding
UpdateOnboarding(p, uid) ==
    /\ pc[p] = "idle"
    /\ uid \in tokens
    /\ req' = [req EXCEPT ![p] = [NoReq EXCEPT !.op = "update_onboarding", !.uid = uid]]
    /\ IF ~UsuarioExists(uid)
       THEN /\ UNCHANGED usuarios
            /\ Done(p, 404, <<>>)
       ELSE /\ usuarios' = UpdateUsuario(uid, OnboardingConcluido(QueryGet(uid)))
            /\ Done(p, 200, <<>>)
    /\ UNCHANGED <<registros, tokens, assets, uploads, hoje, recuos, inseridos, tmp>>

(* ------------------------------ registro ------------------------------ *)

\* Registro.id.desc(): ids are unique, the order is total
RECURSIVE OrderByIdDesc(_)
OrderByIdDesc(rows) ==
    IF rows = {} THEN <<>>
    ELSE LET top == CHOOSE r \in rows : \A s \in rows : s.id <= r.id
         IN <<top>> \o OrderByIdDesc(rows \ {top})

\* Registro.data.desc(); rows of one date come out in rowid order
RECURSIVE OrderByDataDesc(_)
OrderByDataDesc(rows) ==
    IF rows = {} THEN <<>>
    ELSE LET top == CHOOSE r \in rows :
                       \A s \in rows : (s.data < r.data) \/
                                        (s.data = r.data /\ r.id <= s.id)
         IN <<top>> \o OrderByDataDesc(rows \ {top})

\* registros[:-11], the excess taken from the head of the list: the newest rows
BeyondHead(rows, n) == IF Len(rows) > n THEN SubSeq(rows, 1, Len(rows) - n) ELSE <<>>

\* registros[12:], a slice that starts one row late
BeyondOffByOne(rows, n) == IF Len(rows) > n + 1 THEN SubSeq(rows, n + 2, Len(rows)) ELSE <<>>

\* registros[11:]
Beyond(rows, n) == IF Len(rows) > n THEN SubSeq(rows, n + 1, Len(rows)) ELSE <<>>

\* a query without its LIMIT
LimitNone(rows, n) == rows

\* rows[:n], what LIMIT n leaves
Limit(rows, n) == IF Len(rows) > n THEN SubSeq(rows, 1, n) ELSE rows

Range(s) == {s[i] : i \in 1..Len(s)}

\* POST /registro, lines 143-154: date.today(), the existence SELECT, the early return
RegistroCheck(p, uid, humor) ==
    /\ pc[p] = "idle"
    /\ uid \in tokens
    /\ req' = [req EXCEPT ![p] = [NoReq EXCEPT !.op = "registro", !.uid = uid,
                                                !.humor = humor, !.data = hoje]]
    /\ IF RegistroExistente(uid, hoje)
       THEN Done(p, 400, <<>>)
       ELSE /\ pc' = [pc EXCEPT ![p] = "registro_insert"]
            /\ UNCHANGED resp
    /\ UNCHANGED <<dbvars, tmp>>

\* the row lines 156-163 build
NovoRegistro(p) == [id |-> NewId(registros), data |-> req[p].data,
                    humor |-> req[p].humor, id_usuario |-> req[p].uid]

\* lines 165-166: the INSERT and its commit
RegistroInsert(p) ==
    /\ pc[p] = "registro_insert"
    /\ registros' = registros \cup {NovoRegistro(p)}
    /\ inseridos' = Append(inseridos, NovoRegistro(p))
    /\ tmp' = [tmp EXCEPT ![p].novo = NovoRegistro(p).id]
    /\ pc' = [pc EXCEPT ![p] = "registro_read"]
    /\ UNCHANGED <<usuarios, tokens, assets, uploads, hoje, recuos, req, resp>>

\* the excess taken from a SELECT without filter_by(id_usuario=...)
RegistrosADeletarDeTodos(uid) == Range(Beyond(OrderByIdDesc(registros), Retention))

\* a trim of the single oldest row, whatever the excess
RegistrosADeletarUm(uid) ==
    LET rows == OrderByIdDesc(RegistrosDe(uid))
    IN IF Len(rows) > Retention THEN {rows[Len(rows)]} ELSE {}

\* lines 168-170: registros_a_deletar, out of the SELECT ordered by id descending
RegistrosADeletar(uid) == Range(Beyond(OrderByIdDesc(RegistrosDe(uid)), Retention))

\* lines 168-170 and 175: the SELECT, and the return when nothing exceeds the limit
RegistroRead(p) ==
    /\ pc[p] = "registro_read"
    /\ IF Cardinality(RegistrosDe(req[p].uid)) > Retention
       THEN /\ tmp' = [tmp EXCEPT ![p].del = RegistrosADeletar(req[p].uid)]
            /\ pc' = [pc EXCEPT ![p] = "registro_trim"]
            /\ UNCHANGED resp
       ELSE /\ Done(p, 201, <<>>)
            /\ UNCHANGED tmp
    /\ UNCHANGED <<dbvars, req>>

\* lines 171-175: the DELETEs of the rows read, their commit, the return
RegistroTrim(p) ==
    /\ pc[p] = "registro_trim"
    /\ registros' = {r \in registros : r.id \notin {d.id : d \in tmp[p].del}}
    /\ Done(p, 201, <<>>)
    /\ UNCHANGED <<usuarios, tokens, assets, uploads, hoje, recuos, inseridos, req, tmp>>

\* one entry of resultado, lines 185-191
View(r) == [data |-> r.data, humor |-> r.humor]

\* resultado left in the order of the query
ReverseNot(s) == s

\* sequence reversed, resultado.reverse()
Reverse(s) == [i \in 1..Len(s) |-> s[Len(s) + 1 - i]]

\* lines 183-194: resultado out of the rows the filter of the query leaves
ResultadoDe(filtered) ==
    LET rows == Limit(OrderByDataDesc(filtered), Retention)
    IN Reverse([i \in 1..Len(rows) |-> View(rows[i])])

\* lines 183-194: the value of resultado
Resultado(uid) == ResultadoDe(RegistrosDe(uid))

\* GET /registros
ObterRegistros(p, uid) ==
    /\ pc[p] = "idle"
    /\ uid \in tokens
    /\ req' = [req EXCEPT ![p] = [NoReq EXCEPT !.op = "registros", !.uid = uid]]
    /\ Done(p, 200, Resultado(uid))
    /\ UNCHANGED <<dbvars, tmp>>

\* the existence query without its date filter
JaRegistrouAlgumDia(p, uid) ==
    /\ pc[p] = "idle"
    /\ uid \in tokens
    /\ req' = [req EXCEPT ![p] = [NoReq EXCEPT !.op = "ja_registrou_hoje", !.uid = uid]]
    /\ Done(p, 200, <<RegistrosDe(uid) # {}>>)
    /\ UNCHANGED <<dbvars, tmp>>

\* GET /ja-registrou-hoje
JaRegistrouHoje(p, uid) ==
    /\ pc[p] = "idle"
    /\ uid \in tokens
    /\ req' = [req EXCEPT ![p] = [NoReq EXCEPT !.op = "ja_registrou_hoje", !.uid = uid]]
    /\ Done(p, 200, <<RegistroExistente(uid, hoje)>>)
    /\ UNCHANGED <<dbvars, tmp>>

(* ---------------------------- upload-image ---------------------------- *)

\* the handler with the old public id looked at before the file
UploadStartDestroyFirst(p, uid, file) ==
    /\ pc[p] = "idle"
    /\ uid \in tokens
    /\ req' = [req EXCEPT ![p] = [NoReq EXCEPT !.op = "upload_image", !.uid = uid,
                                                !.file = file]]
    /\ IF ~UsuarioExists(uid)
       THEN /\ Done(p, 500, <<>>)
            /\ UNCHANGED tmp
       ELSE IF QueryGet(uid).imagem_public_id # Null
       THEN /\ tmp' = [tmp EXCEPT ![p].old = QueryGet(uid).imagem_public_id]
            /\ pc' = [pc EXCEPT ![p] = "upload_destroy"]
            /\ UNCHANGED resp
       ELSE IF ~file
       THEN /\ Done(p, 400, <<>>)
            /\ UNCHANGED tmp
       ELSE /\ pc' = [pc EXCEPT ![p] = "upload_upload"]
            /\ UNCHANGED <<tmp, resp>>
    /\ UNCHANGED dbvars

\* POST /upload-image, lines 234-241: the account, the file, the old public id
UploadStart(p, uid, file) ==
    /\ pc[p] = "idle"
    /\ uid \in tokens
    /\ req' = [req EXCEPT ![p] = [NoReq EXCEPT !.op = "upload_image", !.uid = uid,
                                                !.file = file]]
    /\ IF ~file
       THEN /\ Done(p, 400, <<>>)
            /\ UNCHANGED tmp
       ELSE IF ~UsuarioExists(uid)
       THEN \* usuario is None: AttributeError at line 241, HTTP 500
            /\ Done(p, 500, <<>>)
            /\ UNCHANGED tmp
       ELSE IF QueryGet(uid).imagem_public_id # Null
       THEN /\ tmp' = [tmp EXCEPT ![p].old = QueryGet(uid).imagem_public_id]
            /\ pc' = [pc EXCEPT ![p] = "upload_destroy"]
            /\ UNCHANGED resp
       ELSE /\ pc' = [pc EXCEPT ![p] = "upload_upload"]
            /\ UNCHANGED <<tmp, resp>>
    /\ UNCHANGED dbvars

\* the destroy call without its try/except: an exception ends the request
UploadDestroyUnhandled(p, ok) ==
    /\ pc[p] = "upload_destroy"
    /\ IF ok
       THEN /\ assets' = assets \ {tmp[p].old}
            /\ tmp' = [tmp EXCEPT ![p].destroy = "ok"]
            /\ pc' = [pc EXCEPT ![p] = "upload_upload"]
            /\ UNCHANGED resp
       ELSE /\ Done(p, 500, <<>>)
            /\ UNCHANGED <<assets, tmp>>
    /\ UNCHANGED <<usuarios, registros, tokens, uploads, hoje, recuos, inseridos, req>>

\* lines 242-245: cloudinary.uploader.destroy; an exception is printed and dropped
UploadDestroy(p, ok) ==
    /\ pc[p] = "upload_destroy"
    /\ assets' = IF ok THEN assets \ {tmp[p].old} ELSE assets
    /\ tmp' = [tmp EXCEPT ![p].destroy = IF ok THEN "ok" ELSE "failed"]
    /\ pc' = [pc EXCEPT ![p] = "upload_upload"]
    /\ UNCHANGED <<usuarios, registros, tokens, uploads, hoje, recuos, inseridos, req, resp>>

\* result of cloudinary.uploader.upload number k (unique_filename=True)
UploadResult(k) == [secure_url |-> <<"https", k>>, public_id |-> <<"mood", k>>]

\* lines 247-253: cloudinary.uploader.upload; an exception is unhandled, HTTP 500
UploadUpload(p, ok) ==
    /\ pc[p] = "upload_upload"
    /\ IF ok
       THEN /\ uploads < MaxUploads
            /\ uploads' = uploads + 1
            /\ assets' = assets \cup {UploadResult(uploads + 1).public_id}
            /\ tmp' = [tmp EXCEPT ![p].result = UploadResult(uploads + 1)]
            /\ pc' = [pc EXCEPT ![p] = "upload_commit"]
            /\ UNCHANGED resp
       ELSE /\ Done(p, 500, <<>>)
            /\ UNCHANGED <<assets, uploads, tmp>>
    /\ UNCHANGED <<usuarios, registros, tokens, hoje, recuos, inseridos, req>>

\* an assignment of the url that forgets the public id
SetImagemUrlOnly(usuario, result) == [usuario EXCEPT !.imagem_url = result.secure_url]

\* lines 255-256: usuario.imagem_url and usuario.imagem_public_id out of result
SetImagem(usuario, result) ==
    [usuario EXCEPT !.imagem_url = result.secure_url,
                    !.imagem_public_id = result.public_id]

\* lines 255-262: both columns out of one upload result, one commit
UploadCommit(p) ==
    /\ pc[p] = "upload_commit"
    /\ IF ~UsuarioExists(req[p].uid)
       THEN \* the UPDATE matches no row: StaleDataError, HTTP 500
            /\ UNCHANGED usuarios
            /\ Done(p, 500, <<>>)
       ELSE /\ usuarios' = UpdateUsuario(req[p].uid,
                                         SetImagem(QueryGet(req[p].uid), tmp[p].result))
            /\ Done(p, 200, <<tmp[p].result.secure_url, tmp[p].result.public_id>>)
    /\ UNCHANGED <<registros, tokens, assets, uploads, hoje, recuos, inseridos, req, tmp>>

\* a usuario row is removed out of band: the case "if not usuario" is written for
AccountVanish(uid) ==
    /\ UsuarioExists(uid)
    /\ usuarios' = {u \in usuarios : u.id # uid}
    /\ UNCHANGED <<registros, tokens, assets, uploads, hoje, recuos, inseridos, pc, req, tmp, resp>>

(* --------------------------- specifications --------------------------- *)

\* the handlers of the account life cycle, for worker p
AccountHandlers(p, emails, senhas, maxUsers) ==
    \/ Respond(p)
    \/ \E e \in emails, s \in senhas : RegisterCheck(p, e, s, maxUsers)
    \/ RegisterInsert(p)
    \/ \E e \in emails, s \in senhas : Login(p, e, s)

OnboardingHandlers(p, nomes) ==
    \/ \E u \in tokens, n \in nomes : Onboarding(p, u, n)
    \/ \E u \in tokens : UpdateOnboarding(p, u)

\* POST /registro without its DELETE step, GET /registros, GET /ja-registrou-hoje
JournalHandlers(p, humores) ==
    \/ \E u \in tokens, h \in humores : RegistroCheck(p, u, h)
    \/ RegistroInsert(p)
    \/ RegistroRead(p)

ReadHandlers(p) ==
    \/ \E u \in tokens : ObterRegistros(p, u)
    \/ \E u \in tokens : JaRegistrouHoje(p, u)

ImageHandlers(p) ==
    \/ \E u \in tokens, f \in BOOLEAN : UploadStart(p, u, f)
    \/ \E ok \in BOOLEAN : UploadDestroy(p, ok)
    \/ \E ok \in BOOLEAN : UploadUpload(p, ok)
    \/ UploadCommit(p)

\* Login and every handler that writes, one request at a time, within one
\* day.  An account never has more than Retention rows here, so the DELETE
\* step of POST /registro is never enabled and is left out of this relation.
Next ==
    \E p \in {1} :
         \/ AccountHandlers(p, Emails, {"p1"}, MaxUsers)
         \/ OnboardingHandlers(p, Nomes)
         \/ JournalHandlers(p, {"ok"})
         \/ ImageHandlers(p)

Spec == Init /\ [][Next]_vars

\* Registration, login and onboarding under two concurrent workers.
NextAccounts ==
    \E p \in Procs :
         \/ AccountHandlers(p, Emails, Senhas, MaxUsers)
         \/ OnboardingHandlers(p, Nomes)

SpecAccounts == Init /\ [][NextAccounts]_vars

\* The account handlers with rows that can disappear under them.
NextVanish ==
    \/ \E u \in {x.id : x \in usuarios} : AccountVanish(u)
    \/ \E p \in {1} :
         \/ AccountHandlers(p, Emails, {"p1"}, MaxUsers)
         \/ OnboardingHandlers(p, Nomes)

SpecVanish == Init /\ [][NextVanish]_vars

\* The journal of one account under two concurrent workers, MaxDay days.
NextJournal ==
    \/ Tick(MaxDay)
    \/ \E p \in Procs :
         \/ AccountHandlers(p, {"a@x.com"}, {"p1"}, MaxUsers)
         \/ JournalHandlers(p, Humores)
         \/ ReadHandlers(p)

SpecJournal == Init /\ [][NextJournal]_vars

\* Retention: one account, one request at a time, over MaxDaySeq days of a
\* clock that may be set back.
NextSeq ==
    \/ Tick(MaxDaySeq)
    \/ ClockBack
    \/ AccountHandlers(1, {"a@x.com"}, {"p1"}, MaxUsers)
    \/ JournalHandlers(1, {"ok"})
    \/ RegistroTrim(1)

SpecSeq == Init /\ [][NextSeq]_vars

\* Listing: worker 1 records for one account over MaxDaySeq days while
\* worker 2 lists, also between the INSERT and the DELETE of worker 1.
NextList ==
    \/ Tick(MaxDaySeq)
    \/ AccountHandlers(1, {"a@x.com"}, {"p1"}, MaxUsers)
    \/ JournalHandlers(1, {"ok"})
    \/ RegistroTrim(1)
    \/ \E u \in tokens : ObterRegistros(2, u)
    \/ Respond(2)

SpecList == Init /\ [][NextList]_vars

\* Image replacement under two concurrent workers.
NextImage ==
    \E p \in Procs :
         \/ AccountHandlers(p, {"a@x.com"}, {"p1"}, MaxUsers)
         \/ ImageHandlers(p)

SpecImage == Init /\ [][NextImage]_vars

\* Retention under two concurrent workers: both record for one account over
\* MaxDayRace days; a request may stay at any of its steps while the other
\* worker's requests, and the clock, go on.
NextRace ==
    \/ Tick(MaxDayRace)
    \/ AccountHandlers(1, {"a@x.com"}, {"p1"}, MaxUsers)
    \/ Respond(2)
    \/ \E p \in Procs :
         \/ JournalHandlers(p, {"ok"})
         \/ RegistroTrim(p)

SpecRace == Init /\ [][NextRace]_vars

\* the day ends once account 1 has its row of the day: its user records daily
EndOfDay(maxDay) == RegistroExistente(1, hoje) /\ Tick(maxDay)

\* Two accounts, one request at a time, over MaxDaySeq days: account 1
\* records every day and so reaches the DELETE step; the other account
\* records on any days, up to MaxOutros rows, before, between and after the
\* rows of account 1.
NextPair ==
    \/ EndOfDay(MaxDaySeq)
    \/ AccountHandlers(1, Emails, {"p1"}, MaxUsers)
    \/ \E u \in tokens :
         /\ u # 1 => Cardinality(RegistrosDe(u)) < MaxOutros
         /\ RegistroCheck(1, u, "ok")
    \/ RegistroInsert(1)
    \/ RegistroRead(1)
    \/ RegistroTrim(1)

SpecPair == Init /\ [][NextPair]_vars

(* ------------------------------- claims ------------------------------- *)

\* worker p takes the first step of handler op in this step
Calls(p, op) == pc[p] = "idle" /\ pc'[p] # "idle" /\ req'[p].op = op

\* worker p has answered a request for handler op with this status code
Answered(p, op, code) == pc[p] = "done" /\ req[p].op = op /\ resp[p].code = code

\* C1: in every reachable state, under any interleaving of POST /registro
\* requests, an account has at most one registro row per calendar date.
C1_OneEntryPerDate ==
    \A r1, r2 \in registros :
        (r1.id_usuario = r2.id_usuario /\ r1.data = r2.data) => r1 = r2

\* C2: a POST /registro that finds a row of the same account dated today is
\* answered 400 at once, whatever humor it carries, and leaves the registro
\* table as it was (no INSERT, no DELETE).
C2_ConflictLeavesEntries ==
    [][\A p \in Procs :
          (/\ Calls(p, "registro")
           /\ \E r \in registros : r.id_usuario = req'[p].uid /\ r.data = hoje)
          => (/\ pc'[p] = "done"
              /\ resp'[p].code = 400
              /\ registros' = registros
              /\ inseridos' = inseridos)]_vars

\* C2 witness: a request answered 400 whose humor differs from the stored row's
C2_Witness ==
    \E p \in Procs :
        /\ Answered(p, "registro", 400)
        /\ \E r \in registros : /\ r.id_usuario = req[p].uid
                                 /\ r.data = req[p].data
                                 /\ r.humor # req[p].humor

\* the rows ever INSERTed for account uid, in commit order
InseridosDe(uid) == SelectSeq(inseridos, LAMBDA r : r.id_usuario = uid)

\* the ids of the last n elements of a sequence of rows
LastIds(log, n) == {log[i].id : i \in (IF Len(log) > n THEN Len(log) - n + 1 ELSE 1)..Len(log)}

\* no POST /registro is between its INSERT and its return
NoRegistroInFlight ==
    \A p \in Procs : pc[p] \notin {"registro_insert", "registro_read", "registro_trim"}

\* C3: when no POST /registro is in flight, after any sequence of completed
\* calls every account holds at most Retention rows, and those are exactly
\* the rows of its last Retention INSERTs (all of them while fewer were made):
\* the largest ids, whatever the dates.
C3_RetentionByInsertion ==
    NoRegistroInFlight =>
        \A u \in usuarios :
            LET log == InseridosDe(u.id)
                kept == {r.id : r \in RegistrosDe(u.id)}
            IN /\ Cardinality(RegistrosDe(u.id)) <= Retention
               /\ kept = LastIds(log, Retention)
               /\ Len(log) > Retention => Cardinality(kept) = Retention
               /\ \A i \in 1..Len(log) : log[i].id \notin kept =>
                      \A k \in kept : log[i].id < k
               /\ \A r \in RegistrosDe(u.id) : \E i \in 1..Len(log) : log[i] = r

\* C3 witness: more than Retention INSERTs were made, the calls are over, and
\* among the rows kept a later row carries an earlier date
C3_Witness ==
    /\ NoRegistroInFlight
    /\ \E u \in usuarios :
          /\ Len(InseridosDe(u.id)) > Retention
          /\ Cardinality(RegistrosDe(u.id)) = Retention
          /\ \E r1, r2 \in RegistrosDe(u.id) : r1.id < r2.id /\ r1.data > r2.data

\* the dates of a sequence of rows strictly increase
IncreasingDays(log) == \A i, j \in 1..Len(log) : i < j => log[i].data < log[j].data

\* C8: after k > Retention successful POST /registro calls of one account on
\* increasing days, made one at a time, GET /registros returns the entries of
\* the last Retention calls, oldest first, and none of the first k - Retention.
C8_ListAfterRetention ==
    [][\A p \in Procs :
          LET log == InseridosDe(req'[p].uid)
              k == Len(log)
          IN (/\ Calls(p, "registros")
              /\ NoRegistroInFlight
              /\ k > Retention
              /\ IncreasingDays(log))
             => (/\ resp'[p].code = 200
                 /\ resp'[p].body = [i \in 1..Retention |-> View(log[k - Retention + i])]
                 /\ \A i \in 1..(k - Retention) : \A j \in 1..Len(resp'[p].body) :
                        resp'[p].body[j].data # log[i].data)]_vars

\* C8 witness: such a listing, answered after at least Retention + 1 calls,
\* none of them in flight
C8_Witness ==
    \E p \in Procs :
        /\ Answered(p, "registros", 200)
        /\ NoRegistroInFlight
        /\ Len(InseridosDe(req[p].uid)) > Retention
        /\ Cardinality(RegistrosDe(req[p].uid)) = Retention
        /\ Len(resp[p].body) = Retention
        /\ resp[p].body[Retention].data = inseridos[Len(inseridos)].data

\* C7: GET /registros answers with at most Retention entries, each the view
\* of a row of the account asked for, in ascending date order, and writes
\* nothing: tables and asset host are as before.
C7_ListRecent ==
    [][\A p \in Procs :
          Calls(p, "registros") =>
            LET body == resp'[p].body
                own == {View(r) : r \in RegistrosDe(req'[p].uid)}
            IN /\ resp'[p].code = 200
               /\ Len(body) <= Retention
               /\ \A i \in 1..Len(body) : body[i] \in own
               /\ \A i, j \in 1..Len(body) : i < j => body[i].data <= body[j].data
               /\ UNCHANGED <<usuarios, registros, assets, inseridos>>]_vars

\* C7 witness: a listing of Retention entries answered while the account
\* holds Retention + 1 rows
C7_Witness ==
    \E p \in Procs :
        /\ Answered(p, "registros", 200)
        /\ Len(resp[p].body) = Retention
        /\ Cardinality(RegistrosDe(req[p].uid)) = Retention + 1

\* worker p leaves position at in this step
Leaves(p, at) == pc[p] = at /\ pc'[p] # at

\* C4: POST /register with an email that a usuario row already has is
\* answered 400 and inserts nothing; and in every reachable state, under any
\* interleaving of register requests, no two usuario rows share an email.
C4_EmailUnique ==
    /\ [](\A u1, u2 \in usuarios : u1.email = u2.email => u1 = u2)
    /\ [][\A p \in Procs :
             (Calls(p, "register") /\ \E u \in usuarios : u.email = req'[p].email)
             => (pc'[p] = "done" /\ resp'[p].code = 400 /\ usuarios' = usuarios)]_vars

\* C4 witness: a register request for a taken email, answered 400
C4_Witness ==
    \E p \in Procs :
        /\ Answered(p, "register", 400)
        /\ \E u \in usuarios : u.email = req[p].email

\* C5: a usuario row is created with onboarding_required true; a successful
\* POST /onboarding or PUT /update-onboarding leaves it false; and no step of
\* any handler takes it from false back to true.
C5_OnboardingOneWay ==
    [][/\ \A v \in usuarios' :
             (\A u \in usuarios : u.id # v.id) => v.onboarding_required
       /\ \A p \in Procs :
             (/\ Calls(p, "onboarding") \/ Calls(p, "update_onboarding")
              /\ resp'[p].code = 200)
             => \E v \in usuarios' : v.id = req'[p].uid /\ ~v.onboarding_required
       /\ \A u \in usuarios : \A v \in usuarios' :
             (u.id = v.id /\ ~u.onboarding_required) => ~v.onboarding_required]_vars

\* C5 witness: an onboarding request answered for an account that has since
\* recorded an entry and replaced its image, its flag false
C5_Witness ==
    \E p \in Procs : \E u \in usuarios :
        /\ Answered(p, "onboarding", 200)
        /\ req[p].uid = u.id
        /\ ~u.onboarding_required
        /\ u.imagem_public_id # Null
        /\ RegistrosDe(u.id) # {}

\* C6: POST /login is answered 200 exactly when a usuario row has the email
\* and its hash is that of the password sent, the hash being the one made of
\* the password it was registered with; otherwise 401.  The body of a 200 is
\* that row's id and its current onboarding_required, and no table is written.
C6_Login ==
    [][\A p \in Procs :
          /\ Calls(p, "login") =>
                LET match == {u \in usuarios :
                                /\ u.email = req'[p].email
                                /\ u.senha_hash = generate_password_hash(req'[p].senha)}
                IN /\ pc'[p] = "done"
                   /\ resp'[p].code = (IF match # {} THEN 200 ELSE 401)
                   /\ match # {} => \E u \in match :
                         resp'[p].body = <<u.id, u.onboarding_required>>
                   /\ UNCHANGED <<usuarios, registros, assets, inseridos>>
          /\ Leaves(p, "register_insert") =>
                \A v \in usuarios' \ usuarios :
                    v.senha_hash = generate_password_hash(req[p].senha)
          /\ \A u \in usuarios : \A v \in usuarios' :
                u.id = v.id => u.senha_hash = v.senha_hash /\ u.email = v.email]_vars

\* C6 witness: a login answered 200 with onboarding_required false
C6_Witness ==
    \E p \in Procs :
        /\ Answered(p, "login", 200)
        /\ resp[p].body[2] = FALSE

\* C9: POST /onboarding for an identity that has no usuario row is answered
\* 404, as PUT /update-onboarding is, and writes nothing.
C9_OnboardingNotFound ==
    [][\A p \in Procs :
          (Calls(p, "onboarding") /\ \A u \in usuarios : u.id # req'[p].uid)
          => (resp'[p].code = 404 /\ usuarios' = usuarios)]_vars

C11_ImagePair ==
    /\ [](\A u \in usuarios : (u.imagem_url = Null) <=> (u.imagem_public_id = Null))
    /\ [][/\ \A v \in usuarios' :
                (\A u \in usuarios : u.id # v.id)
                => (v.imagem_url = Null /\ v.imagem_public_id = Null)
          /\ \A u \in usuarios : \A v \in usuarios' :
                (/\ u.id = v.id
                 /\ (u.imagem_url # v.imagem_url) \/ (u.imagem_public_id # v.imagem_public_id))
                => \E p \in Procs :
                      /\ Leaves(p, "upload_commit")
                      /\ req[p].uid = v.id
                      /\ tmp[p].result # Null
                      /\ v.imagem_url = tmp[p].result.secure_url
                      /\ v.imagem_public_id = tmp[p].result.public_id
                      /\ tmp[p].result = UploadResult(uploads)]_vars

\* C11 witness: a second POST /upload-image of an account answered 200, the row
\* holding the url and the public id of that second upload, its name changed
\* by an onboarding in between
C11_Witness ==
    \E p \in Procs : \E u \in usuarios :
        /\ Answered(p, "upload_image", 200)
        /\ u.id = req[p].uid
        /\ tmp[p].old # Null
        /\ tmp[p].old # tmp[p].result.public_id
        /\ u.imagem_url = tmp[p].result.secure_url
        /\ u.imagem_public_id = tmp[p].result.public_id
        /\ u.nome = "Ana"

\* C12: GET /ja-registrou-hoje answers 200 with true exactly when a registro
\* row of the account is dated today, and writes nothing.  With one request
\* at a time, POST /registro passes its check and goes on to INSERT and 201
\* exactly when no such row exists (the answer GET /ja-registrou-hoje would
\* have given was false), else it is answered 400; and a GET
\* /ja-registrou-hoje that follows a POST /registro answered 201 on the same
\* day answers true.
C12_HasRecordedToday ==
    [][\A p \in Procs :
          LET today == \E r \in registros : r.id_usuario = req'[p].uid /\ r.data = hoje
          IN /\ Calls(p, "ja_registrou_hoje")
                => (/\ pc'[p] = "done"
                    /\ resp'[p] = [code |-> 200, body |-> <<today>>]
                    /\ UNCHANGED dbvars)
             /\ (Calls(p, "registro") /\ NoRegistroInFlight)
                => (/\ today => (pc'[p] = "done" /\ resp'[p].code = 400)
                    /\ ~today => pc'[p] = "registro_insert")
             /\ Leaves(p, "registro_insert")
                => (\E r \in registros' \ registros :
                       r.id_usuario = req[p].uid /\ r.data = req[p].data)
             /\ (Leaves(p, "registro_read") /\ pc'[p] = "done")
                => resp'[p].code = 201
             /\ (/\ Calls(p, "ja_registrou_hoje")
                 /\ NoRegistroInFlight
                 /\ inseridos # <<>>
                 /\ inseridos[Len(inseridos)].id_usuario = req'[p].uid
                 /\ inseridos[Len(inseridos)].data = hoje)
                => resp'[p].body = <<TRUE>>]_vars

\* C12 witness: on the second day, with a row of the first day stored, GET
\* /ja-registrou-hoje is answered true right after the POST /registro of the
\* day was answered 201
C12_Witness ==
    \E p, q \in Procs :
        /\ Answered(p, "ja_registrou_hoje", 200)
        /\ resp[p].body = <<TRUE>>
        /\ Answered(q, "registro", 201)
        /\ req[q].uid = req[p].uid
        /\ req[q].data = hoje
        /\ hoje > 1
        /\ \E r \in registros : r.id_usuario = req[p].uid /\ r.data < hoje

\* C12 witness of the other answer: false on a day without a row, rows of an
\* earlier day stored
C12_WitnessFalse ==
    \E p \in Procs :
        /\ Answered(p, "ja_registrou_hoje", 200)
        /\ resp[p].body = <<FALSE>>
        /\ RegistrosDe(req[p].uid) # {}

\* C13: POST /onboarding sets the row's nome to the nome sent exactly when
\* one was sent and it is not the empty string, and otherwise leaves nome as
\* it was; PUT /update-onboarding never changes nome; both leave email,
\* senha_hash, imagem_url and imagem_public_id of the row, and every other
\* row, as they were.
C13_OnboardingFrame ==
    [][\A p \in Procs : \A u \in usuarios :
          (/\ Calls(p, "onboarding") \/ Calls(p, "update_onboarding")
           /\ u.id = req'[p].uid)
          => /\ \E v \in usuarios' :
                   /\ v.id = u.id
                   /\ v.nome = (IF /\ req'[p].op = "onboarding"
                                    /\ req'[p].nome # NONE
                                    /\ req'[p].nome # ""
                                 THEN req'[p].nome ELSE u.nome)
                   /\ v.email = u.email
                   /\ v.senha_hash = u.senha_hash
                   /\ v.imagem_url = u.imagem_url
                   /\ v.imagem_public_id = u.imagem_public_id
             /\ \A w \in usuarios : w.id # u.id => w \in usuarios'
             /\ Cardinality(usuarios') = Cardinality(usuarios)]_vars

\* C13 witness: a POST /onboarding with the empty string answered 200 for an
\* account that had taken a name and an image before, both still there
C13_Witness ==
    \E p \in Procs : \E u \in usuarios :
        /\ Answered(p, "onboarding", 200)
        /\ req[p].nome = ""
        /\ u.id = req[p].uid
        /\ u.nome = "Ana"
        /\ u.imagem_public_id # Null

\* C13 witness of the overwrite: a POST /onboarding with a name answered 200,
\* the row holding that name and its image
C13_WitnessNamed ==
    \E p \in Procs : \E u \in usuarios :
        /\ Answered(p, "onboarding", 200)
        /\ req[p].nome = "Ana"
        /\ u.id = req[p].uid
        /\ u.nome = "Ana"
        /\ u.imagem_public_id # Null

\* the POST /registro requests of account uid between their INSERT and their return
AposInsert(uid) == {p \in Procs : pc[p] \in {"registro_read", "registro_trim"} /\ req[p].uid = uid}

\* C14 as stated: under concurrent POST /registro requests of one account an
\* account never holds more than Retention + 1 rows.
C14_OvershootOne ==
    \A u \in usuarios : Cardinality(RegistrosDe(u.id)) <= Retention + 1

\* C14 amended: an account holds at most Retention rows plus one row for each
\* of its POST /registro requests that has INSERTed and not yet returned
\* (Retention + 2 under two workers); so whenever none of its requests is
\* past its INSERT the account is back to at most Retention rows.
C14_OvershootPerCall ==
    \A u \in usuarios :
        Cardinality(RegistrosDe(u.id)) <= Retention + Cardinality(AposInsert(u.id))

\* C14 witness: Retention + 2 rows, the two newest INSERTed by two requests
\* still in flight that read two different dates from the clock
C14_Witness ==
    \E u \in usuarios :
        /\ Cardinality(RegistrosDe(u.id)) = Retention + 2
        /\ AposInsert(u.id) = Procs
        /\ req[1].data # req[2].data

\* C14 witness of the return: after an account held Retention + 2 rows, no
\* request in flight and Retention rows
C14_WitnessBack ==
    /\ NoRegistroInFlight
    /\ \E u \in usuarios :
          /\ Cardinality(RegistrosDe(u.id)) = Retention
          /\ Len(InseridosDe(u.id)) = Retention + 2
          /\ \E i \in 1..Len(inseridos) - 1 : inseridos[i].data = inseridos[i + 1].data

\* C15: POST /upload-image without a file is answered 400 in its first step:
\* no destroy and no upload is made for it (the asset host is as before), and
\* the usuario table, so the row's imagem_url and imagem_public_id, is as
\* before; the request holds no old public id, no destroy outcome and no
\* upload result when it is answered.
C15_NoFile ==
    /\ [][\A p \in Procs :
             (Calls(p, "upload_image") /\ ~req'[p].file)
             => (/\ pc'[p] = "done"
                 /\ resp'[p].code = 400
                 /\ tmp'[p] = NoTmp
                 /\ UNCHANGED <<usuarios, assets, uploads>>)]_vars
    /\ [](\A p \in Procs :
             (req[p].op = "upload_image" /\ ~req[p].file)
             => (/\ pc[p] = "done"
                 /\ resp[p].code = 400
                 /\ tmp[p] = NoTmp))

\* C15 witness: a request without a file answered 400 for an account that has
\* an image, its asset still on the host
C15_Witness ==
    \E p \in Procs : \E u \in usuarios :
        /\ Answered(p, "upload_image", 400)
        /\ ~req[p].file
        /\ u.id = req[p].uid
        /\ u.imagem_public_id # Null
        /\ u.imagem_public_id \in assets

\* C16: a row that the DELETE step of a POST /registro request removes is, in
\* the table as it is at that step, below at least Retention rows of its
\* account by id, and is none of the account's last Retention INSERTs; and it
\* is never the row the same request INSERTed.  This under two workers whose
\* DELETE steps act on reads made before the other worker's INSERTs and
\* DELETEs.
C16_TrimSparesNewest ==
    [][\A p \in Procs :
          Leaves(p, "registro_trim") =>
             \A r \in registros \ registros' :
                 /\ Cardinality({s \in registros :
                                   s.id_usuario = r.id_usuario /\ s.id > r.id}) >= Retention
                 /\ r.id \notin LastIds(InseridosDe(r.id_usuario), Retention)
                 /\ r.id # tmp[p].novo]_vars

\* C16 witness: both workers have run their DELETE step, each on its own
\* read; the reads overlapped, so one of the steps found a row of its list
\* already gone; the account holds Retention rows, the rows of both requests
\* among them
C16_Witness ==
    /\ \A p \in Procs :
          /\ Answered(p, "registro", 201)
          /\ tmp[p].del # {}
          /\ \E r \in registros : r.id = tmp[p].novo
    /\ tmp[1].del \cap tmp[2].del # {}
    /\ tmp[1].del # tmp[2].del
    /\ Cardinality(registros) = Retention

\* worker p takes a step of POST /registro in this step
RegistroStep(p) ==
    \/ Calls(p, "registro")
    \/ Leaves(p, "registro_insert")
    \/ Leaves(p, "registro_read")
    \/ Leaves(p, "registro_trim")

\* C17: every step of a POST /registro request of account a (check, INSERT,
\* read, DELETE) leaves the usuario table as it was, INSERTs and DELETEs only
\* rows whose id_usuario is a, and for every other account b leaves b's rows,
\* the list GET /registros gives for b and the answer GET /ja-registrou-hoje
\* gives for b as they were.
C17_PerAccount ==
    [][\A p \in Procs :
          RegistroStep(p) =>
             LET a == req'[p].uid IN
             /\ usuarios' = usuarios
             /\ \A r \in (registros' \ registros) \cup (registros \ registros') :
                    r.id_usuario = a
             /\ \A b \in {u.id : u \in usuarios} \cup tokens :
                    b # a =>
                      /\ {r \in registros' : r.id_usuario = b}
                            = {r \in registros : r.id_usuario = b}
                      /\ ResultadoDe({r \in registros' : r.id_usuario = b})
                            = ResultadoDe({r \in registros : r.id_usuario = b})
                      /\ (\E r \in registros' : r.id_usuario = b /\ r.data = hoje')
                            <=> (\E r \in registros : r.id_usuario = b /\ r.data = hoje)]_vars

\* C17 witness: a POST /registro of one account answered after its DELETE
\* step, while another account holds a row older than every row the first
\* account has left and a row of today
C17_Witness ==
    \E p \in Procs : \E rb, rt \in registros :
        /\ Answered(p, "registro", 201)
        /\ tmp[p].del # {}
        /\ rb.id_usuario # req[p].uid
        /\ rt.id_usuario = rb.id_usuario
        /\ rt.data = hoje
        /\ rb.id < rt.id
        /\ \A r \in registros : r.id_usuario = req[p].uid => rb.id < r.id
        /\ Cardinality(RegistrosDe(req[p].uid)) = Retention

\* C18: in every reachable state each registro row's id_usuario, and each
\* token's identity, is the id of a usuario row; a login answered 200 issues
\* the id of the row that has the email; and no step of any handler removes a
\* usuario row or changes an id (every id of the table is still there after
\* the step).
C18_NoOrphan ==
    /\ [](\A r \in registros : \E u \in usuarios : u.id = r.id_usuario)
    /\ [](\A t \in tokens : \E u \in usuarios : u.id = t)
    /\ [][/\ \A u \in usuarios : \E v \in usuarios' : v.id = u.id
          /\ Cardinality(usuarios') >= Cardinality(usuarios)
          /\ \A p \in Procs :
                (Calls(p, "login") /\ resp'[p].code = 200)
                => /\ \E u \in usuarios : (u.email = req'[p].email /\ resp'[p].body[1] = u.id)
                   /\ tokens' = tokens \cup {resp'[p].body[1]}
          /\ tokens' # tokens
                => \E p \in Procs : Calls(p, "login") /\ resp'[p].code = 200]_vars

\* C18 witness: the second account holds a registro row, recorded without any
\* look at its usuario row, and the first account has since been through
\* onboarding and an image replacement
C18_Witness ==
    /\ \E r \in registros : r.id_usuario = MaxUsers
    /\ \E u \in usuarios : u.id = MaxUsers
    /\ \E u \in usuarios :
          /\ u.id # MaxUsers
          /\ ~u.onboarding_required
          /\ u.imagem_public_id # Null
    /\ pc[1] = "done" /\ req[1].op = "upload_image" /\ resp[1].code = 200

\* C19: whenever no POST /upload-image request is between its destroy and
\* its commit, the imagem_public_id of every usuario row that has one is the
\* public id of an asset the host still holds; so also once a request whose
\* destroy succeeded and whose upload failed has been answered.
C19_ImageOnHost ==
    (\A p \in Procs : pc[p] \notin {"upload_destroy", "upload_upload", "upload_commit"})
    => \A u \in usuarios : u.imagem_public_id # Null => u.imagem_public_id \in assets

====
